---------------------------- MODULE Spec2Model ----------------------------
(***************************************************************************)
(* CPU temperature model (cpu_temperature_model.py).                       *)
(*                                                                         *)
(* Number representation.  The program computes in IEEE doubles; the       *)
(* model computes in fixed point:                                          *)
(*   - a temperature, a power, a rate or a dimensionless factor x is the   *)
(*     integer x * Scale (micro-units), rounded to the nearest unit;       *)
(*   - a time is the integer t * TU, TU = 2*(NSamples-1) * 2^Halvings      *)
(*     ticks a second, so that every np.linspace sample over an integer    *)
(*     span, and every time the solver steps to, is an exact integer.      *)
(* scipy's odeint (LSODA) is library code.  What it returns is the         *)
(* solution of the ODE at the requested times, to its error tolerance;     *)
(* the model computes that solution by quadrature with error control       *)
(* (odeint_advance).  At which times and temperatures LSODA calls cpu_ode  *)
(* is its own affair and changes no state of the program, cpu_ode being    *)
(* pure: the model records none of it.  cpu_ode and the power profiles     *)
(* are examined on calls with arguments of any kind (CpuOdeCall).          *)
(***************************************************************************)
EXTENDS Integers, Sequences, FiniteSets

VARIABLES C, k, T_env, T0,      \* module-level physical parameters
          pc,                   \* position of the running program
          power_func, t_span,   \* arguments of the current solve_scenario call
          kwargs,               \* keyword arguments the caller added to it
          t, T,                 \* solve_scenario's locals: times, temperatures
          evals,                \* locals of the last direct cpu_ode call
          ana_args, T_analytical, \* analytical_solution: (T0, P_const) and result
          report                \* print_analysis: the values it prints

vars == <<C, k, T_env, T0, pc, power_func, t_span, kwargs, t, T, evals,
          ana_args, T_analytical, report>>

---------------------------------------------------------------------------
(* Program constants *)
\* Mutant: the heat capacity left at zero
C_zero == 50 - 50
C_init == 50
k_init == 5
T_env_init == 25
T0_init == 25
NSamples == 500
DefaultStart == 0
DefaultEnd == 60

(* Bounds of the model: the other span starts and ends a caller passes *)
MaxStart == 10
MidEnd == 30

\* A sample-grid tick is divided in 2^Halvings ticks, the finest the solver's
\* steps can get; it accepts a step whose error estimate is at most SolverTol
\* micro-degrees
Halvings == 14
SolverTol == 2

Scale == 1000 * 1000
Fine == 2 ^ Halvings
BaseTU == 2 * (NSamples - 1)
TU == BaseTU * Fine

PowerFuncs == {"idle", "step", "periodic"}
SpanStarts == {DefaultStart, MaxStart}
SpanEnds == {5, 10, MidEnd, DefaultEnd}
CallTemps == {20 * Scale, 25 * Scale, 25 * Scale + 3, 27 * Scale - 1,
              27 * Scale, 30 * Scale, 41 * Scale, 41 * Scale + 1, 45 * Scale}
CallTimes == {0, TU \div Scale, 5 * TU - 1, 5 * TU, 5 * TU + 1, 15 * TU,
              DefaultEnd * TU}
NoKwargs == [x \in {} |-> 0]
KwargChoices == {NoKwargs, [n_samples |-> 1], [n_samples |-> 100],
                 [T_initial |-> 30]}

---------------------------------------------------------------------------
(* Fixed-point arithmetic standing for the float operations of the source. *)
(* \div and % are the floor division and its remainder, also below zero.  *)

\* a / d rounded to the nearest integer (d > 0)
Rnd(a, d) == (a + d \div 2) \div d

\* (a * b) / Scale rounded, for |b| < 2000 * Scale, without leaving 32 bits
FMul(a, b) ==
    (a \div Scale) * b
    + ((a % Scale) * (b \div 1000) + ((a % Scale) * (b % 1000)) \div 1000 + 500)
      \div 1000

\* (a * Scale) / b for a >= 0, b > 0: long division, six decimal digits
RECURSIVE LongDiv(_, _, _, _)
LongDiv(q, r, b, digits) ==
    IF digits = 0 THEN q
    ELSE LongDiv(10 * q + (10 * r) \div b, (10 * r) % b, b, digits - 1)

FDiv(a, b) == LongDiv(a \div b, a % b, b, 6)

HalfPi == 1570796

\* sin(y) / y by its Taylor series to y^10 in Horner form; y2 is y * y
RECURSIVE SinHorner(_, _)
SinHorner(y2, n) ==
    IF n > 10 THEN Scale
    ELSE Scale - FMul(y2, SinHorner(y2, n + 2)) \div (n * (n + 1))

\* sin(HalfPi * x) for x in [0, Scale]
SinQuarter(x) ==
    LET y == FMul(x, HalfPi)
    IN  FMul(y, SinHorner(FMul(y, y), 2))

\* omega = 2 * np.pi / 20: the period, and a quarter of it in ticks
Period == 20
QuarterTicks == (Period * BaseTU) \div 4

\* np.sin over the first quarter period, tabulated every Fine ticks, and one
\* entry past it for the interpolation
SinTable ==
    [u \in 0..QuarterTicks + 1 |->
        SinQuarter((Scale \div QuarterTicks) * u
                   + ((Scale % QuarterTicks) * u) \div QuarterTicks)]

\* The table tab read f / Fine of the way from entry i to entry i + 1
SinLerp(tab, i, f) == tab[i] + Rnd((tab[i + 1] - tab[i]) * f, Fine)

\* np.sin(omega * tv) for a time tv in ticks: the argument is reduced to the
\* first quarter period exactly, and the table interpolated between entries
SinTurn(tv) ==
    LET r    == tv % (Period * TU)
        q    == r \div (QuarterTicks * Fine)
        rem  == r % (QuarterTicks * Fine)
        u    == IF q % 2 = 0 THEN rem ELSE QuarterTicks * Fine - rem
        idx  == u \div Fine
        frac == u % Fine
        val  == SinLerp(SinTable, idx, frac)
    IN  IF q < 2 THEN val ELSE 0 - val

\* np.exp(-z) for z >= 0: exp(-z/8) by its Taylor series to w^10, squared three times
RECURSIVE ExpHorner(_, _)
ExpHorner(w, n) ==
    IF n > 10 THEN Scale
    ELSE Scale - FMul(w, ExpHorner(w, n + 1)) \div n

ExpNeg(z) ==
    LET e8 == ExpHorner(z \div 8, 1)
        e4 == FMul(e8, e8)
        e2 == FMul(e4, e4)
    IN  FMul(e2, e2)

---------------------------------------------------------------------------
(* Power scenarios: time in ticks, result in micro-watts *)
power_idle(tv) == 10 * Scale

\* Mutant: the threshold compared with <= instead of <
power_step_late(tv) == IF tv <= 5 * TU THEN 10 * Scale ELSE 80 * Scale

\* Mutant: the power of the first call kept for every later time
power_step_cached(tv) == 10 * Scale

power_step(tv) == IF tv < 5 * TU THEN 10 * Scale ELSE 80 * Scale

power_periodic(tv) == 45 * Scale + 35 * SinTurn(tv)

\* power_func(t): the call through the function object passed as argument
CallPower(pf, tv) ==
    CASE pf = "idle"     -> power_idle(tv)
      [] pf = "step"     -> power_step(tv)
      [] pf = "periodic" -> power_periodic(tv)

\* Mutant: the heat lost to the ambient left out of the balance
cpu_ode_no_loss(Tv, tv, pf) ==
    LET P         == CallPower(pf, tv)
        heat_loss == k * (Tv - T_env * Scale)
        dT_dt     == Rnd(P, C)
    IN  [T |-> Tv, t |-> tv, pf |-> pf, P |-> P, heat_loss |-> heat_loss,
         dT_dt |-> dT_dt]

\* Mutant: the heat loss taken from zero degrees instead of from T_env
cpu_ode_no_ambient(Tv, tv, pf) ==
    LET P         == CallPower(pf, tv)
        heat_loss == k * Tv
        dT_dt     == Rnd(P - heat_loss, C)
    IN  [T |-> Tv, t |-> tv, pf |-> pf, P |-> P, heat_loss |-> heat_loss,
         dT_dt |-> dT_dt]

\* cpu_ode(T, t, power_func): its arguments, its locals, and dT_dt, which it
\* returns
cpu_ode(Tv, tv, pf) ==
    LET P         == CallPower(pf, tv)
        heat_loss == k * (Tv - T_env * Scale)
        dT_dt     == Rnd(P - heat_loss, C)
    IN  [T |-> Tv, t |-> tv, pf |-> pf, P |-> P, heat_loss |-> heat_loss,
         dT_dt |-> dT_dt]

\* Mutant: the steady state without the ambient temperature
analytical_no_ambient(tv, T0arg, P_const) ==
    LET tau      == Rnd(C * Scale, k)
        T_steady == Rnd(P_const, k)
        secs     == FDiv(tv, TU)
    IN  T_steady + FMul(T0arg - T_steady, ExpNeg(FDiv(secs, tau)))

\* analytical_solution(t, T0, P_const) for one time tv (ticks)
analytical_solution(tv, T0arg, P_const) ==
    LET tau      == Rnd(C * Scale, k)
        T_steady == T_env * Scale + Rnd(P_const, k)
        secs     == FDiv(tv, TU)
    IN  T_steady + FMul(T0arg - T_steady, ExpNeg(FDiv(secs, tau)))

\* Mutant: np.linspace(a, b, n, endpoint=False)
linspace_open(a, b, n) ==
    [i \in 1..n |-> TU * a + Rnd((i - 1) * BaseTU * (b - a), n) * Fine]

\* Mutant: one sample short
linspace_short(a, b, n) ==
    [i \in 1..(n - 1) |-> TU * a + (i - 1) * ((TU \div (n - 1)) * (b - a))]

\* np.linspace(a, b, n), in ticks
linspace(a, b, n) == [i \in 1..n |-> TU * a + (i - 1) * ((TU \div (n - 1)) * (b - a))]

\* x * h / d rounded, for a rate x, a step of h ticks and d a multiple of
\* TU: the powers of two that h and d share are cancelled first
RECURSIVE StepTimes(_, _, _)
StepTimes(x, h, d) ==
    IF h % 2 = 0 /\ d % 2 = 0 THEN StepTimes(x, h \div 2, d \div 2)
    ELSE Rnd(x * h, d)

\* odeint from time ta over h ticks: the solution of the ODE there.  The
\* interval is integrated in one step and in two half steps; the two-step
\* result is taken when the two agree within SolverTol, and otherwise each
\* half is solved in the same way.  An interval that cannot be halved twice
\* in whole ticks is integrated in one step.
RECURSIVE odeint_advance(_, _, _, _)
odeint_advance(Tv, ta, h, pf) ==
    LET rate(Tq, tq) == cpu_ode(Tq, tq, pf).dT_dt
        rk(Tq, tq, hq) ==
            LET r1 == rate(Tq, tq)
                r2 == rate(Tq + StepTimes(r1, hq, 2 * TU), tq + hq \div 2)
                r3 == rate(Tq + StepTimes(r2, hq, 2 * TU), tq + hq \div 2)
                r4 == rate(Tq + StepTimes(r3, hq, TU), tq + hq)
            IN  Tq + StepTimes(r1 + 2 * r2 + 2 * r3 + r4, hq, 6 * TU)
        full == rk(Tv, ta, h)
        half == rk(rk(Tv, ta, h \div 2), ta + h \div 2, h \div 2)
    IN  IF h % 4 # 0 THEN full
        ELSE IF full - half <= SolverTol /\ half - full <= SolverTol
             THEN half
             ELSE odeint_advance(odeint_advance(Tv, ta, h \div 2, pf),
                                 ta + h \div 2, h \div 2, pf)

\* Mutant: the time constant inverted, k / C
print_analysis_inverted ==
    LET tau           == Rnd(k * Scale, C)
        T_steady_idle == T_env * Scale + Rnd(power_idle(0), k)
        T_steady_load == T_env * Scale + Rnd(80 * Scale, k)
    IN  [tau |-> tau, t63 |-> tau, t95 |-> 3 * tau, t99 |-> 5 * tau,
         T_steady_idle |-> T_steady_idle, T_steady_load |-> T_steady_load,
         rise |-> T_steady_load - T_env * Scale]

\* What print_analysis computes from the parameters
print_analysis ==
    LET tau           == Rnd(C * Scale, k)
        T_steady_idle == T_env * Scale + Rnd(power_idle(0), k)
        T_steady_load == T_env * Scale + Rnd(80 * Scale, k)
    IN  [tau |-> tau, t63 |-> tau, t95 |-> 3 * tau, t99 |-> 5 * tau,
         T_steady_idle |-> T_steady_idle, T_steady_load |-> T_steady_load,
         rise |-> T_steady_load - T_env * Scale]

\* Mutant: T0 declared global in analytical_solution, so the call rebinds it
analytical_globals_rebound(T0arg) == <<C, k, T_env, T0arg>>

\* analytical_solution's parameter T0 is a local: the globals after the call
analytical_globals(T0arg) == <<C, k, T_env, T0>>

---------------------------------------------------------------------------
Init ==
    /\ C = C_init /\ k = k_init /\ T_env = T_env_init /\ T0 = T0_init
    /\ pc = "start"
    /\ power_func = "none" /\ t_span = <<DefaultStart, DefaultEnd>>
    /\ kwargs = NoKwargs
    /\ t = <<>> /\ T = <<>> /\ evals = <<>>
    /\ ana_args = <<>> /\ T_analytical = <<>>
    /\ report = <<>>

\* main: print_analysis()
PrintAnalysis ==
    /\ pc = "start"
    /\ report' = print_analysis
    /\ pc' = "ready"
    /\ UNCHANGED <<C, k, T_env, T0, power_func, t_span, kwargs, t, T, evals,
                   ana_args, T_analytical>>

\* A call cpu_ode(T, t, power_func), as odeint or any other caller makes it:
\* at temperatures on and off the steady states and between whole degrees,
\* at times at, next to and far from the jump of power_step
CpuOdeCall ==
    /\ pc = "ready"
    /\ \E Tv \in CallTemps, tv \in CallTimes, pf \in PowerFuncs :
          evals' = <<cpu_ode(Tv, tv, pf)>>
    /\ UNCHANGED <<C, k, T_env, T0, pc, power_func, t_span, kwargs, t, T,
                   ana_args, T_analytical, report>>

\* solve_scenario(power_func, t_span, **kwargs): the call, up to np.linspace
SolveCall ==
    /\ pc \in {"ready", "returned", "validated", "TypeError"}
    /\ \E pf \in PowerFuncs, a \in SpanStarts, b \in SpanEnds, kw \in KwargChoices :
          /\ power_func' = pf
          /\ t_span' = <<a, b>>
          /\ kwargs' = kw
          /\ IF kw # NoKwargs
             THEN /\ pc' = "TypeError"
                  /\ t' = <<>> /\ T' = <<>>
             ELSE /\ pc' = "odeint"
                  /\ t' = linspace(a, b, NSamples)
                  /\ T' = <<T0 * Scale>>
    /\ evals' = <<>> /\ ana_args' = <<>> /\ T_analytical' = <<>>
    /\ UNCHANGED <<C, k, T_env, T0, report>>

\* odeint: the value at the next requested time.  The one library call is
\* followed one requested time at a time; nothing reads T before SolveReturn.
OdeintStep ==
    /\ pc = "odeint"
    /\ Len(T) < Len(t)
    /\ T' = Append(T, odeint_advance(T[Len(T)], t[Len(T)],
                                     t[Len(T) + 1] - t[Len(T)], power_func))
    /\ UNCHANGED <<C, k, T_env, T0, pc, power_func, t_span, kwargs, t, evals,
                   ana_args, T_analytical, report>>

\* T.flatten(); return t, T
SolveReturn ==
    /\ pc = "odeint"
    /\ Len(T) = Len(t)
    /\ pc' = "returned"
    /\ UNCHANGED <<C, k, T_env, T0, power_func, t_span, kwargs, t, T, evals,
                   ana_args, T_analytical, report>>

\* plot_results: analytical_solution(t_idle, T0, power_idle(0)) on an idle
\* trajectory that starts at time 0
Analytical ==
    /\ pc = "returned"
    /\ power_func = "idle"
    /\ t_span[1] = 0 /\ t_span[2] > t_span[1]
    /\ \E T0arg \in {T0, 30} :
          /\ ana_args' = <<T0arg * Scale, power_idle(0)>>
          /\ T_analytical' = [i \in 1..Len(t) |->
                 analytical_solution(t[i], T0arg * Scale, power_idle(0))]
          /\ LET g == analytical_globals(T0arg)
             IN  C' = g[1] /\ k' = g[2] /\ T_env' = g[3] /\ T0' = g[4]
    /\ pc' = "validated"
    /\ UNCHANGED <<power_func, t_span, kwargs, t, T, evals, report>>

Next == PrintAnalysis \/ CpuOdeCall \/ SolveCall \/ OdeintStep \/ SolveReturn
        \/ Analytical

Spec == Init /\ [][Next]_vars

---------------------------------------------------------------------------
(* Vocabulary of the properties *)
InCall == power_func # "none"
ValidSpan == t_span[2] > t_span[1]
Computing == pc \in {"odeint", "returned", "validated"}
SamplesDone == 1..Len(T)
StepsDone == 1..(Len(T) - 1)
SteadyAt(P) == T_env * Scale + Rnd(P, k)
Tolerance == Scale \div 100

\* The arguments the specification's integrate() takes, as the caller gave
\* them: n_samples and T_initial when passed, its defaults otherwise
RequestedSamples ==
    IF "n_samples" \in DOMAIN kwargs THEN kwargs.n_samples ELSE NSamples
RequestedInitial ==
    IF "T_initial" \in DOMAIN kwargs THEN kwargs.T_initial ELSE T0

---------------------------------------------------------------------------
\* C1 as stated: a call whose span is empty or inverted (t1 <= t0), or whose
\* sample count is below 2, never returns a trajectory.
C1_RejectsBadSpan ==
    (InCall /\ (~ValidSpan \/ RequestedSamples < 2)) => pc # "returned"

\* C1 as amended: solve_scenario validates nothing.  A call with an empty or
\* inverted span returns NSamples points that start at (t0, T0) and whose
\* times run from t0 to t1 without ever increasing; the only calls that
\* fail are those that pass a keyword solve_scenario does not take, and they
\* fail (TypeError) before any time or temperature is computed.
C1_NoValidation ==
    /\ (pc = "returned" /\ ~ValidSpan) =>
          /\ Len(t) = NSamples /\ Len(T) = NSamples
          /\ t[1] = t_span[1] * TU /\ t[NSamples] = t_span[2] * TU
          /\ T[1] = T0 * Scale
          /\ \A i \in 1..(NSamples - 1) : t[i + 1] <= t[i]
    /\ (InCall /\ kwargs # NoKwargs) => pc = "TypeError"
    /\ pc = "TypeError" => (kwargs # NoKwargs /\ t = <<>> /\ T = <<>>)

C1_Witness ==
    /\ pc = "returned" /\ t_span = <<10, 5>>
    /\ Len(T) = NSamples /\ T[NSamples] < T0 * Scale

C3_CallerSuppliedArguments ==
    (InCall /\ ValidSpan /\ RequestedSamples >= 2) =>
        /\ pc # "TypeError"
        /\ pc = "returned" =>
              /\ Len(T) = RequestedSamples
              /\ T[1] = RequestedInitial * Scale

\* C3 as amended: solve_scenario takes the power profile and the span only.
\* For each of the three profiles and every span with t1 > t0 the returned
\* trajectory has exactly NSamples (500) points, its times are strictly
\* increasing and evenly spaced from t0 to t1, and its first point is
\* (t0, T0) for the module-level T0; a call that supplies T_initial or
\* n_samples returns nothing.
C3_Trajectory ==
    /\ (pc = "returned" /\ ValidSpan) =>
          /\ power_func \in PowerFuncs
          /\ Len(t) = NSamples /\ Len(T) = NSamples
          /\ t[1] = t_span[1] * TU /\ t[NSamples] = t_span[2] * TU
          /\ \A i \in 1..(NSamples - 1) :
                /\ t[i + 1] > t[i]
                /\ t[i + 1] - t[i] = t[2] - t[1]
          /\ T[1] = T0 * Scale
    /\ pc = "returned" => kwargs = NoKwargs

C3_Witness ==
    /\ pc = "returned" /\ power_func = "periodic" /\ t_span = <<10, DefaultEnd>>
    /\ Len(T) = NSamples /\ T[1] = T0 * Scale /\ t[NSamples] = DefaultEnd * TU

\* C4: in every cpu_ode call at a time t >= 0, the idle profile has given
\* exactly 10 W, the step profile 10 W when t < 5 s and 80 W when t >= 5 s
\* (80 W at t = 5 itself), and neither is ever negative.
C4_IdleAndStepPower ==
    \A j \in DOMAIN evals :
        LET e == evals[j]
        IN  e.t >= 0 =>
                /\ e.pf = "idle" => e.P = 10 * Scale
                /\ (e.pf = "step" /\ e.t < 5 * TU) => e.P = 10 * Scale
                /\ (e.pf = "step" /\ e.t >= 5 * TU) => e.P = 80 * Scale
                /\ e.pf \in {"idle", "step"} => e.P >= 0

C4_Witness ==
    /\ pc = "ready" /\ Len(evals) = 1
    /\ evals[1].pf = "step" /\ evals[1].t = 5 * TU /\ evals[1].P = 80 * Scale

\* C5: with C=50, k=5, T_env=25, T0=25 print_analysis reports tau = 10 s,
\* steady states 27 (idle) and 41 (full load), and the 63%/95%/99% response
\* times 10, 30 and 50 s.
C5_Characteristics ==
    pc # "start" =>
        /\ report.tau = 10 * Scale
        /\ report.T_steady_idle = 27 * Scale
        /\ report.T_steady_load = 41 * Scale
        /\ report.t63 = 10 * Scale
        /\ report.t95 = 30 * Scale
        /\ report.t99 = 50 * Scale

C5_Witness ==
    /\ pc = "ready" /\ report # <<>>
    /\ C = 50 /\ k = 5 /\ T_env = 25 /\ T0 = 25
    /\ report.t95 = 3 * report.tau

C9_ParametersUnchanged ==
    /\ C = C_init /\ k = k_init /\ T_env = T_env_init /\ T0 = T0_init

C9_Witness ==
    /\ pc = "validated" /\ ana_args[1] # T0 * Scale
    /\ report # <<>>
    /\ T0 = T0_init

\* C10: the rate cpu_ode returns satisfies C * rate = P(t) - k*(T - T_env),
\* to the rounding of the last digit; so it is zero when T is the steady
\* state T_env + P(t)/k, positive only when T is below it and whenever T is
\* below it by more than the rounding, negative only when T is above it and
\* whenever T is above it by more than the rounding.
C10_RateBalance ==
    \A j \in DOMAIN evals :
        LET e   == evals[j]
            net == e.P - k * (e.T - T_env * Scale)
        IN  /\ 2 * (C * e.dT_dt - net) <= C
            /\ 2 * (net - C * e.dT_dt) <= C
            /\ net = 0 => e.dT_dt = 0
            /\ e.dT_dt > 0 => net > 0
            /\ e.dT_dt < 0 => net < 0
            /\ net >= C => e.dT_dt > 0
            /\ net <= 0 - C => e.dT_dt < 0

C10_Witness ==
    /\ pc = "ready" /\ Len(evals) = 1
    /\ evals[1].pf = "periodic" /\ evals[1].P = 80 * Scale
    /\ evals[1].T = 41 * Scale /\ evals[1].dT_dt = 0

===========================================================================
